---- MODULE Spec2Model ----
(***************************************************************************)
(* Model of nx_rdr_wrtr: the reader pipeline of rdr_utils.py (list_reader, *)
(* _get_fields, _map_reader_gen, dict_reader, obj_reader) and the writer   *)
(* mixins of wrtr_utils.py (HeaderlessMixin, HeaderMixin, DictWriterMixin).*)
(*                                                                         *)
(* A Python str is a sequence of one-character strings, so that strip(),   *)
(* concatenation, str(int) and isidentifier() are computed character by    *)
(* character.  A row is a sequence of such strings.                        *)
(***************************************************************************)
EXTENDS Integers, Sequences, FiniteSets, TLC

VARIABLES
    rows,        \* the raw row source handed to the reader (an iterator's content)
    pos,         \* the source iterator's position: rows[pos] is read next
    cfg,         \* the keyword arguments of the call under study
    pc,          \* where the reader is: "start", "iter", "exhausted", "call_failed", "raised"
    out,         \* list_reader: the rows yielded so far
    calls,       \* list_reader: the rows the handler has been invoked on, in order
    blank_idx,   \* list_reader: source positions removed by filter(any, ...)
    fields,      \* dict_reader/obj_reader: the resolved field list
    records,     \* dict_reader/obj_reader: the records yielded so far
    lines,       \* dict_reader/obj_reader: the cleaned row behind each yielded record
    err,         \* dict_reader/obj_reader: the exception raised, or "none"
    flat,        \* the last record flattened back by DictWriterMixin.write's flatten
    w            \* the writer object, its underlying writer and its temporary buffer

vars == <<rows, pos, cfg, pc, out, calls, blank_idx, fields, records, lines, err, flat, w>>

(***************************************************************************)
(* Python values                                                           *)
(***************************************************************************)

\* None where a str is expected: no str contains the pseudo-character "None".
NoneStr == <<"None">>

\* None where a row (list of str) is expected.
NoneRow == << <<"NoneRow">> >>

\* str.strip() and friends strip whitespace; the model's whitespace is the blank.
Whitespace == {" "}

RECURSIVE str_lstrip(_)
str_lstrip(s) ==
    IF s = <<>> THEN <<>>
    ELSE IF Head(s) \in Whitespace THEN str_lstrip(Tail(s)) ELSE s

RECURSIVE str_rstrip(_)
str_rstrip(s) ==
    IF s = <<>> THEN <<>>
    ELSE IF s[Len(s)] \in Whitespace THEN str_rstrip(SubSeq(s, 1, Len(s) - 1)) ELSE s

str_strip(s) == str_rstrip(str_lstrip(s))

\* bool(s) of a str: the empty str is falsy.
truthy(s) == s # <<>>

(***************************************************************************)
(* list_reader (rdr_utils.py:28-76)                                        *)
(***************************************************************************)

lstrip(lst) == [i \in 1..Len(lst) |-> str_lstrip(lst[i])]

rstrip(lst) == [i \in 1..Len(lst) |-> str_rstrip(lst[i])]

strip(lst) == [i \in 1..Len(lst) |-> str_strip(lst[i])]

\* any() replaced by a test that the list has elements.
any_nonempty(lst) == lst # <<>>

\* The builtin any() handed to filter(): some element is truthy.

any(lst) == \E i \in 1..Len(lst) : truthy(lst[i])

\* The handlers the model supplies: "none" is handler=None; "reject_a" returns
\* None for a row whose first field is "a" and the row itself otherwise;
\* "blanker" returns the row with every field replaced by "".
Handlers == {"none", "reject_a", "blanker"}

handler_apply(h, lst) ==
    CASE h = "reject_a" -> IF Len(lst) > 0 /\ lst[1] = <<"a">> THEN NoneRow ELSE lst
      [] h = "blanker"  -> [i \in 1..Len(lst) |-> <<>>]
      [] OTHER          -> lst

\* One next() on a stage returns [stop, row, pos, calls, blanks]: whether the
\* stage raised StopIteration, the row it produced, the source position after
\* it, the rows the handler was invoked on and the source positions the blank
\* filter removed while producing it.
StopAt(p) == [stop |-> TRUE, row |-> <<>>, pos |-> p, calls |-> <<>>, blanks |-> {}]

\* stage_trim without the combined case: only one side is ever stripped.
stage_trim_one_side(c, src, p) ==
    IF p > Len(src) THEN StopAt(p)
    ELSE [stop |-> FALSE,
          row |-> IF ~c.trailing_ws THEN rstrip(src[p])
                  ELSE IF ~c.leading_ws THEN lstrip(src[p])
                  ELSE src[p],
          pos |-> p + 1, calls |-> <<>>, blanks |-> {}]

\* rdr = map(strip | rstrip | lstrip, rdr), lines 52-60.
stage_trim(c, src, p) ==
    IF p > Len(src) THEN StopAt(p)
    ELSE [stop |-> FALSE,
          row |-> IF ~c.leading_ws /\ ~c.trailing_ws THEN strip(src[p])
                  ELSE IF ~c.trailing_ws THEN rstrip(src[p])
                  ELSE IF ~c.leading_ws THEN lstrip(src[p])
                  ELSE src[p],
          pos |-> p + 1, calls |-> <<>>, blanks |-> {}]

\* A stage's result with the removals and handler calls of the rows it
\* skipped before producing it.
skipped(n, blanks, cs) ==
    [n EXCEPT !.blanks = n.blanks \cup blanks, !.calls = cs \o n.calls]

\* rdr = filter(any, rdr), lines 62-64: r is the trimmed row read at position p.
RECURSIVE stage_blank(_, _, _)
filter_blank(c, src, p, r) ==
    IF ~c.ignore_blanks \/ r.stop \/ any(r.row) THEN r
    ELSE skipped(stage_blank(c, src, r.pos), {p}, <<>>)

stage_blank(c, src, p) == filter_blank(c, src, p, stage_trim(c, src, p))

\* rdr = (x for x in rdr if x != ignore), lines 66-68.
RECURSIVE stage_ignore(_, _, _)
filter_ignore(c, src, r) ==
    IF c.ignore = NoneRow \/ r.stop \/ r.row # c.ignore THEN r
    ELSE skipped(stage_ignore(c, src, r.pos), r.blanks, <<>>)

stage_ignore(c, src, p) == filter_ignore(c, src, stage_blank(c, src, p))

\* rdr = (x for x in map(handler, rdr) if x is not None), lines 70-74:
\* h is handler(r.row).
RECURSIVE stage_handler(_, _, _)
filter_handled(c, src, r, h) ==
    IF h # NoneRow THEN [r EXCEPT !.row = h, !.calls = <<r.row>>]
    ELSE skipped(stage_handler(c, src, r.pos), r.blanks, <<r.row>>)

map_handler(c, src, r) ==
    IF c.handler = "none" \/ r.stop THEN r
    ELSE filter_handled(c, src, r, handler_apply(c.handler, r.row))

stage_handler(c, src, p) == map_handler(c, src, stage_ignore(c, src, p))

\* next() on the generator list_reader returns.
list_reader(c, src, p) == stage_handler(c, src, p)

(***************************************************************************)
(* The list reader on its own                                              *)
(***************************************************************************)

\* The longest row source the model enumerates.
MaxRows == 3

SeqUpTo(S, n) == UNION {[1..k -> S] : k \in 0..n}

\* Raw rows: [], [""], [" "], [" a "], ["a", " "], ["b"].
RawRows ==
    { <<>>, << <<>> >>, << <<" ">> >>, << <<" ", "a", " ">> >>,
      << <<"a">>, <<" ">> >>, << <<"b">> >> }

\* ignore=None, ignore=[" a"], ignore=["a"].
Sentinels == { NoneRow, << <<" ", "a">> >>, << <<"a">> >> }

ListConfigs ==
    [leading_ws : BOOLEAN, trailing_ws : BOOLEAN, ignore_blanks : BOOLEAN,
     ignore : Sentinels, handler : Handlers]

NoFlat == [idx |-> 0, ok |-> FALSE, lst |-> <<>>]

flattened(i, f) == [idx |-> i, ok |-> f.ok, lst |-> f.lst]

\* The writer object of a run that has no writer.
NoWriter == [mode |-> "absent"]

InitList ==
    /\ rows \in SeqUpTo(RawRows, MaxRows)
    /\ pos = 1
    /\ cfg \in ListConfigs
    /\ pc = "iter"
    /\ out = <<>>
    /\ calls = <<>>
    /\ blank_idx = {}
    /\ fields = <<>>
    /\ records = <<>>
    /\ lines = <<>>
    /\ err = "none"
    /\ flat = NoFlat
    /\ w = NoWriter

\* next() on the generator returned by list_reader(rdr, **cfg): a row is
\* yielded, or the source is exhausted and StopIteration ends the iteration.
list_yield(r) ==
    /\ pos' = r.pos
    /\ calls' = calls \o r.calls
    /\ blank_idx' = blank_idx \cup r.blanks
    /\ out' = IF r.stop THEN out ELSE Append(out, r.row)
    /\ pc' = IF r.stop THEN "exhausted" ELSE "iter"
    /\ UNCHANGED <<rows, cfg, fields, records, lines, err, flat, w>>

list_next ==
    /\ pc = "iter"
    /\ list_yield(list_reader(cfg, rows, pos))

NextList == list_next

SpecListReader == InitList /\ [][NextList]_vars

(***************************************************************************)
(* dict_reader and obj_reader (rdr_utils.py:81-172)                        *)
(***************************************************************************)

DecimalDigits == <<"0", "1", "2", "3", "4", "5", "6", "7", "8", "9">>

\* str(x) of a non-negative int.
RECURSIVE str_int(_)
str_int(x) ==
    IF x < 10 THEN <<DecimalDigits[x + 1]>>
    ELSE str_int(x \div 10) \o <<DecimalDigits[(x % 10) + 1]>>

\* The characters of the model that may start an identifier, and continue one.
IdStart == {"a", "b", "x", "l", "i", "n", "e", "u", "m", "_"}

IdContinue == IdStart \cup {DecimalDigits[i] : i \in 1..10}

\* str.isidentifier().
isidentifier(s) ==
    /\ s # <<>>
    /\ s[1] \in IdStart
    /\ \A k \in 2..Len(s) : s[k] \in IdContinue

\* The reserved attribute name 'line_num'.
line_num_name == <<"l", "i", "n", "e", "_", "n", "u", "m">>

\* The duplicate test without effect.
has_duplicates_never(lst) == FALSE

\* len(fields) != len(set(fields)).
has_duplicates(lst) == Len(lst) # Cardinality({lst[i] : i \in 1..Len(lst)})

\* all(fields): every name is truthy.
all(lst) == \A i \in 1..Len(lst) : truthy(lst[i])

\* getattr(col, 'name', col): a column object gives its name, a str itself.
column_name(col) == IF col.has_name THEN col.name ELSE col.str

\* field_rename.get(x, x), the mapping given as a set of <<old, new>> pairs.
rename_get(m, x) ==
    IF \E q \in m : q[1] = x THEN (CHOOSE q \in m : q[1] = x)[2] ELSE x

\* The list_reader keyword arguments _get_fields passes on.
reader_cfg(c, ign) ==
    [leading_ws |-> c.leading_ws, trailing_ws |-> c.trailing_ws,
     ignore_blanks |-> c.ignore_blanks, ignore |-> ign, handler |-> c.handler]

\* What a call or a next() came to: error is "none" or the exception raised.
Raised(e, r) ==
    [error |-> e, fields |-> <<>>, pos |-> r.pos, calls |-> r.calls, blanks |-> r.blanks]

\* fields = [getattr(col, 'name', col) for col in fields], line 95.
supplied_names(c, p) ==
    [StopAt(p) EXCEPT
       !.stop = FALSE,
       !.row = [i \in 1..Len(c.fields.cols) |-> column_name(c.fields.cols[i])]]

\* if field_rename: fields = [field_rename.get(x, x) for x in fields], lines 98-99.
renamed(c, lst) ==
    IF c.field_rename.given /\ c.field_rename.pairs # {}
    THEN [i \in 1..Len(lst) |-> rename_get(c.field_rename.pairs, lst[i])]
    ELSE lst

\* Lines 96-101 on the header or the supplied names hdr, flds being the names
\* after the renaming.
check_fields(hdr, flds) ==
    IF hdr.stop THEN Raised("StopIteration", hdr)
    ELSE IF hdr.row = <<>> THEN Raised("no fields specified", hdr)
    ELSE IF has_duplicates(flds) THEN Raised("duplicate field names", hdr)
    ELSE [Raised("none", hdr) EXCEPT !.fields = flds]

resolve_fields(c, hdr) == check_fields(hdr, renamed(c, hdr.row))

\* _get_fields: the resolved field list, or the exception it raises.
_get_fields(c, src, p) ==
    IF c.fields.given /\ c.field_rename.given
    THEN Raised("rename specified with supplied fields", StopAt(p))
    ELSE IF c.fields.given
    THEN resolve_fields(c, supplied_names(c, p))
    ELSE resolve_fields(c, list_reader(reader_cfg(c, NoneRow), src, p))

\* The blank-name check left out.
dict_check_fields_skipped(g) == g

\* if not all(fields): raise ValueError('blank field name', fields), lines 143-144.
dict_check_fields(g) ==
    IF g.error = "none" /\ ~all(g.fields)
    THEN [g EXCEPT !.error = "blank field name", !.fields = <<>>]
    ELSE g

\* The loop of lines 162-164.
obj_check_fields(g) ==
    IF /\ g.error = "none"
       /\ \E i \in 1..Len(g.fields) :
            \/ ~truthy(g.fields[i])
            \/ ~isidentifier(g.fields[i])
            \/ g.fields[i] = line_num_name
    THEN [g EXCEPT !.error = "invalid field name", !.fields = <<>>]
    ELSE g

\* dict_reader up to the creation of its generator, lines 140-144.
dict_reader_setup(c, src, p) == dict_check_fields(_get_fields(c, src, p))

\* obj_reader up to the creation of its generator, lines 159-164.
obj_reader_setup(c, src, p) == obj_check_fields(_get_fields(c, src, p))

\* rest_val tested for truth instead of against None.
rest_val_configured_truthy(c) == c.rest_val # NoneStr /\ truthy(c.rest_val)

\* rest_val is not None, line 126.
rest_val_configured(c) == c.rest_val # NoneStr

\* The numbered keys counted from 1 instead of 0.
rest_keys_from_one(c, n) == [x \in 1..n |-> c.rest_key \o str_int(x)]

\* [rest_key + str(x) for x in range(n)], lines 121-122.
rest_keys(c, n) == [x \in 1..n |-> c.rest_key \o str_int(x - 1)]

\* fields + [rest_key + str(x) for x in range(line_length - fields_length)].
active_fields(c, flds, line) == flds \o rest_keys(c, Len(line) - Len(flds))

\* One iteration of _map_reader_gen's loop on the cleaned row `line`:
\* the active fields and the row to yield, or the ValueError raised.
_map_reader_gen(c, flds, line) ==
    IF Len(line) = Len(flds)
    THEN [error |-> "none", active_fields |-> flds, line |-> line]
    ELSE IF Len(line) > Len(flds)
    THEN IF c.rest_key = NoneStr
         THEN [error |-> "too many fields", active_fields |-> <<>>, line |-> line]
         ELSE IF has_duplicates(active_fields(c, flds, line))
         THEN [error |-> "rest_key generated duplicate key", active_fields |-> <<>>, line |-> line]
         ELSE [error |-> "none", active_fields |-> active_fields(c, flds, line), line |-> line]
    ELSE IF rest_val_configured(c)
    THEN [error |-> "none", active_fields |-> flds,
          line |-> line \o [i \in 1..(Len(flds) - Len(line)) |-> c.rest_val]]
    ELSE [error |-> "insufficient fields", active_fields |-> <<>>, line |-> line]

Min(a, b) == IF a < b THEN a ELSE b

\* zip(fields, line) pairing each key with the value one place further on.
zip_dict_shifted(keys, vals) ==
    LET n == Min(Len(keys), Len(vals)) IN
    [k \in {keys[i] : i \in 1..n} |->
        vals[((CHOOSE i \in 1..n : keys[i] = k) % n) + 1]]

\* {k: v for k, v in zip(fields, line)}: a key met again takes the later value.
zip_dict(keys, vals) ==
    LET n == Min(Len(keys), Len(vals)) IN
    [k \in {keys[i] : i \in 1..n} |->
        vals[CHOOSE i \in 1..n : keys[i] = k /\ \A j \in (i + 1)..n : keys[j] # k]]

\* Line({...}, line.line_num), line 150.
dict_record(keys, vals, n) == [data |-> zip_dict(keys, vals), line_num |-> n]

\* ctor(), setattr per pair, then result.line_num = line.line_num, lines 167-170:
\* an attribute named line_num is overwritten by the line number.
obj_record(keys, vals, n) ==
    LET attrs == zip_dict(keys, vals) IN
    [data |-> [k \in (DOMAIN attrs) \ {line_num_name} |-> attrs[k]], line_num |-> n]

\* flatten_dict of the write path: the values of `data` in the order of `flds`;
\* a key outside the field list is ignored or, with extras_action "raise",
\* an error; a missing key takes rest_val, or is an error when rest_val is None.
flatten_dict(data, flds, rest_val, extras_action) ==
    LET names == {flds[i] : i \in 1..Len(flds)} IN
    IF extras_action = "raise" /\ ~((DOMAIN data) \subseteq names)
    THEN [ok |-> FALSE, lst |-> <<>>]
    ELSE IF rest_val = NoneStr /\ ~(names \subseteq DOMAIN data)
    THEN [ok |-> FALSE, lst |-> <<>>]
    ELSE [ok |-> TRUE,
          lst |-> [i \in 1..Len(flds) |->
                     IF flds[i] \in DOMAIN data THEN data[flds[i]] ELSE rest_val]]

(***************************************************************************)
(* The map readers as a run: the call, then next() on the generator        *)
(***************************************************************************)

\* The longest row source handed to dict_reader/obj_reader.
MaxMapRows == 2

StrCol(s) == [has_name |-> FALSE, name |-> <<>>, str |-> s]

NamedCol(s) == [has_name |-> TRUE, name |-> s, str |-> <<>>]

\* fields=None, [], ["a","x0"], ["a","a"], ["a",""], ["a","0"], [<column line_num>].
SuppliedFields ==
    { [given |-> FALSE, cols |-> <<>>],
      [given |-> TRUE, cols |-> <<>>],
      [given |-> TRUE, cols |-> <<StrCol(<<"a">>), StrCol(<<"x", "0">>)>>],
      [given |-> TRUE, cols |-> <<StrCol(<<"a">>), NamedCol(<<"a">>)>>],
      [given |-> TRUE, cols |-> <<StrCol(<<"a">>), StrCol(<<>>)>>],
      [given |-> TRUE, cols |-> <<StrCol(<<"a">>), StrCol(<<"0">>)>>],
      [given |-> TRUE, cols |-> <<NamedCol(line_num_name)>>] }

\* field_rename=None, {}, {"x0": "a"}.
Renames ==
    { [given |-> FALSE, pairs |-> {}],
      [given |-> TRUE, pairs |-> {}],
      [given |-> TRUE, pairs |-> {<< <<"x", "0">>, <<"a">> >>}] }

\* Rows: [], ["a"], ["a","x0"], ["a"," "], ["a","x0","b"], ["b","a"].
MapRows ==
    { <<>>, << <<"a">> >>, << <<"a">>, <<"x", "0">> >>, << <<"a">>, <<" ">> >>,
      << <<"a">>, <<"x", "0">>, <<"b">> >>, << <<"b">>, <<"a">> >> }

\* The whitespace, blank-row and handler arguments the runs are made with:
\* the defaults of dict_reader, whitespace and blank rows kept, and a handler.
ReaderPresets ==
    { [leading_ws |-> TRUE, trailing_ws |-> FALSE, ignore_blanks |-> TRUE, handler |-> "none"],
      [leading_ws |-> TRUE, trailing_ws |-> TRUE, ignore_blanks |-> FALSE, handler |-> "none"],
      [leading_ws |-> TRUE, trailing_ws |-> FALSE, ignore_blanks |-> TRUE, handler |-> "reject_a"] }

MapConfigs ==
    { [kind |-> k, fields |-> f, field_rename |-> m, rest_key |-> rk, rest_val |-> rv,
       ignore_rows_with_fields |-> irwf, leading_ws |-> q.leading_ws,
       trailing_ws |-> q.trailing_ws, ignore_blanks |-> q.ignore_blanks,
       handler |-> q.handler] :
      k \in {"dict", "obj"}, f \in SuppliedFields, m \in Renames,
      rk \in {NoneStr, <<"x">>}, rv \in {NoneStr, <<>>}, irwf \in BOOLEAN,
      q \in ReaderPresets }

InitMap ==
    /\ rows \in SeqUpTo(MapRows, MaxMapRows)
    /\ pos = 1
    /\ cfg \in MapConfigs
    /\ pc = "start"
    /\ out = <<>>
    /\ calls = <<>>
    /\ blank_idx = {}
    /\ fields = <<>>
    /\ records = <<>>
    /\ lines = <<>>
    /\ err = "none"
    /\ flat = NoFlat
    /\ w = NoWriter

\* The body of a call dict_reader(rdr, **cfg) or obj_reader(rdr, ctor, **cfg):
\* the setup runs in the call, the generator is returned unstarted.
reader_call(r) ==
    /\ pos' = r.pos
    /\ calls' = calls \o r.calls
    /\ blank_idx' = blank_idx \cup r.blanks
    /\ fields' = r.fields
    /\ err' = r.error
    /\ pc' = IF r.error = "none" THEN "iter" ELSE "call_failed"
    /\ UNCHANGED <<rows, cfg, out, records, lines, flat, w>>

dict_reader ==
    /\ pc = "start"
    /\ cfg.kind = "dict"
    /\ reader_call(dict_reader_setup(cfg, rows, pos))

obj_reader ==
    /\ pc = "start"
    /\ cfg.kind = "obj"
    /\ reader_call(obj_reader_setup(cfg, rows, pos))

\* ignore = fields if ignore_rows_with_fields else None, line 102.
map_rdr_cfg == reader_cfg(cfg, IF cfg.ignore_rows_with_fields THEN fields ELSE NoneRow)

\* The generator's step on the cleaned row r: m is what _map_reader_gen made
\* of it, a ValueError or the fields and row the record is built from.
reader_step(kind, r, m) ==
    /\ lines' = Append(lines, r.row)
    /\ IF m.error = "none"
       THEN /\ records' = Append(records,
                                 IF kind = "dict"
                                 THEN dict_record(m.active_fields, m.line, r.pos - 1)
                                 ELSE obj_record(m.active_fields, m.line, r.pos - 1))
            /\ UNCHANGED <<pc, err>>
       ELSE /\ pc' = "raised"
            /\ err' = m.error
            /\ UNCHANGED records

\* next() on the generator of a map reader, r being what next() on the
\* cleaned rows gave: StopIteration when they are exhausted, else a step.
reader_pull(kind, r) ==
    /\ pos' = r.pos
    /\ calls' = calls \o r.calls
    /\ blank_idx' = blank_idx \cup r.blanks
    /\ IF r.stop
       THEN pc' = "exhausted" /\ UNCHANGED <<records, lines, err>>
       ELSE reader_step(kind, r, _map_reader_gen(cfg, fields, r.row))
    /\ UNCHANGED <<rows, cfg, out, fields, flat, w>>

reader_next(kind) == reader_pull(kind, list_reader(map_rdr_cfg, rows, pos))

dict_next ==
    /\ pc = "iter"
    /\ cfg.kind = "dict"
    /\ reader_next("dict")

obj_next ==
    /\ pc = "iter"
    /\ cfg.kind = "obj"
    /\ reader_next("obj")

\* DictWriterMixin.write's flatten applied to the record dict_reader yielded
\* last, by a writer constructed with the reader's field list.
flatten_record ==
    /\ pc \in {"iter", "exhausted", "raised"}
    /\ cfg.kind = "dict"
    /\ Len(records) > 0
    /\ flat.idx # Len(records)
    /\ \E ea \in {"ignore", "raise"} :
          flat' = flattened(Len(records), flatten_dict(records[Len(records)].data, fields, NoneStr, ea))
    /\ UNCHANGED <<rows, pos, cfg, pc, out, calls, blank_idx, fields, records, lines, err, w>>

NextMap == dict_reader \/ obj_reader \/ dict_next \/ obj_next \/ flatten_record

SpecMapReader == InitMap /\ [][NextMap]_vars

(***************************************************************************)
(* The writer mixins (wrtr_utils.py)                                       *)
(***************************************************************************)

\* The calls of write/write_header and of close/__exit__ a run makes at most.
MaxWrites == 2

MaxCloses == 2

\* self.fields of the writer: ["a", "b"].
WriterFields == << <<"a">>, <<"b">> >>

\* self._field_set.
field_set(flds) == {flds[i] : i \in 1..Len(flds)}

\* The values a record may hold: None, " ", "v".
WriterValues == {NoneStr, <<" ">>, <<"v">>}

\* The records written: every record over the fields, and one lacking "b".
WriterRecords ==
    [field_set(WriterFields) -> WriterValues] \cup {[k \in {<<"a">>} |-> <<"v">>]}

\* self.handler: None, or a handler that returns None for a row whose first
\* value is None, a longer row for one whose first value is " ", and the row
\* reversed otherwise.
WriterHandlers == {"none", "edit"}

writer_handler_apply(h, lst) ==
    IF h # "edit" THEN lst
    ELSE IF lst[1] = NoneStr THEN NoneRow
    ELSE IF lst[1] = <<" ">> THEN lst \o << <<"v">> >>
    ELSE [i \in 1..Len(lst) |-> lst[Len(lst) + 1 - i]]

\* A value counted as used whenever it is not None.
nonblank_not_none(v) == v # NoneStr

\* v is not None and str(v).strip(), line 88.
nonblank(v) == v # NoneStr /\ truthy(str_strip(v))

\* {k for k, v in zip(self.fields, data) if v is not None and str(v).strip()}.
fields_in_use(flds, data) ==
    {flds[i] : i \in {j \in 1..Min(Len(flds), Len(data)) : nonblank(data[j])}}

\* The text csv.writer writes for a value: nothing for None.
csv_text(v) == IF v = NoneStr THEN <<>> ELSE v

\* _csv_wrtr.writerow(data) followed by the csv reader: the row's fields as text.
csv_writerow(data) == [i \in 1..Len(data) |-> csv_text(data[i])]

\* A row of csv.DictReader(fobj, delimiter='|'), whose fieldnames are the
\* header line that __init__ wrote: the writer's fields.
csv_DictReader(flds, text) ==
    [k \in field_set(flds) |-> text[CHOOSE i \in 1..Len(flds) : flds[i] = k]]

\* fields = [x for x in self.fields if x in self._fields_used] or self.fields.
minimized_fields(flds, used) ==
    IF SelectSeq(flds, LAMBDA x : x \in used) = <<>> THEN flds
    ELSE SelectSeq(flds, LAMBDA x : x \in used)

\* What close() hands to wrtr.write when nothing fails, lines 52-63: the
\* header, then each buffered row read back and flattened over the header.
replayed(flds, hdr, buffer) ==
    <<hdr>> \o
    [i \in 1..Len(buffer) |->
        flatten_dict(csv_DictReader(flds, csv_writerow(buffer[i])), hdr, NoneStr, "ignore").lst]

\* The opened writer: _closed False, _wrtr and (minimized) _fobj set; sink is
\* what the underlying writer's write() received, wrtr_closed and fobj_closed
\* count the close() calls on the underlying writer and the buffer, buffer
\* holds the rows given to _csv_wrtr.writerow; writes, closes, op, lst and
\* result record the calls made, the last call, the list of the last write
\* and how the last call ended.
Writers ==
    [mode : {"headerless", "header", "minimized"}, handler : WriterHandlers,
     closed : {FALSE}, wrtr : {"wrtr"}, fobj : {"fobj"}, fields_used : {{}},
     buffer : {<<>>}, sink : {<<>>}, wrtr_closed : {0}, fobj_closed : {0},
     writes : {0}, closes : {0}, op : {"__init__"}, lst : {<<>>}, result : {"opened"}]

Opened(x) ==
    /\ x.mode = "headerless" => x.handler = "none"
    /\ x.mode # "minimized" => x.fobj = "None"

InitWriter ==
    /\ w \in {[x EXCEPT !.fobj = IF x.mode = "minimized" THEN "fobj" ELSE "None"] : x \in Writers}
    /\ Opened(w)
    /\ rows = <<>>
    /\ pos = 1
    /\ cfg = [kind |-> "writer"]
    /\ pc = "writer"
    /\ out = <<>>
    /\ calls = <<>>
    /\ blank_idx = {}
    /\ fields = WriterFields
    /\ records = <<>>
    /\ lines = <<>>
    /\ err = "none"
    /\ flat = NoFlat

\* HeaderlessMixin._write, lines 25-26: None has no write() once closed.
headerless_write(x, lst) ==
    IF x.wrtr = "None" THEN [x EXCEPT !.result = "AttributeError"]
    ELSE [x EXCEPT !.sink = Append(@, lst), !.result = "written"]

\* HeaderMixin._write from line 86 on, data being the row to write: a write
\* into the closed buffer raises after the used fields were updated.
header_write_data(x, data) ==
    IF x.mode = "minimized"
    THEN IF x.fobj_closed > 0
         THEN [x EXCEPT !.fields_used = @ \cup fields_in_use(WriterFields, data),
                        !.result = "ValueError"]
         ELSE [x EXCEPT !.fields_used = @ \cup fields_in_use(WriterFields, data),
                        !.buffer = Append(@, data), !.result = "buffered"]
    ELSE headerless_write(x, data)

\* Lines 78-83 without the test of the length.
header_write_handled_any_length(x, lst, data) ==
    IF data = NoneRow THEN [x EXCEPT !.result = "suppressed"]
    ELSE header_write_data(x, data)

\* Lines 78-83 on data = handler(lst).
header_write_handled(x, lst, data) ==
    IF data = NoneRow THEN [x EXCEPT !.result = "suppressed"]
    ELSE IF Len(data) # Len(lst) THEN [x EXCEPT !.result = "AttributeError"]
    ELSE header_write_data(x, data)

\* HeaderMixin._write, lines 75-91.
header_write(x, lst) ==
    IF x.handler # "none"
    THEN header_write_handled(x, lst, writer_handler_apply(x.handler, lst))
    ELSE header_write_data(x, lst)

\* self._write(lst) of the mixin the writer was built from.
mixin_write(x, lst) ==
    IF x.mode = "headerless" THEN headerless_write(x, lst) ELSE header_write(x, lst)

\* DictWriterMixin.write on the flattened record f, lines 104-109.
write_flattened(x, f) ==
    IF ~f.ok
    THEN [x EXCEPT !.writes = @ + 1, !.op = "write", !.lst = <<>>, !.result = "flatten failed"]
    ELSE mixin_write([x EXCEPT !.writes = @ + 1, !.op = "write", !.lst = f.lst], f.lst)

write ==
    /\ pc = "writer"
    /\ w.writes < MaxWrites
    /\ \E data \in WriterRecords :
          w' = write_flattened(w, flatten_dict(data, WriterFields, NoneStr, "ignore"))
    /\ UNCHANGED <<rows, pos, cfg, pc, out, calls, blank_idx, fields, records, lines, err, flat>>

\* HeaderMixin.write_header, lines 69-73.
write_header ==
    /\ pc = "writer"
    /\ w.mode # "headerless"
    /\ w.writes < MaxWrites
    /\ w' = IF w.mode = "minimized"
            THEN [w EXCEPT !.writes = @ + 1, !.op = "write_header", !.result = "ValueError"]
            ELSE headerless_write([w EXCEPT !.writes = @ + 1, !.op = "write_header"], WriterFields)
    /\ UNCHANGED <<rows, pos, cfg, pc, out, calls, blank_idx, fields, records, lines, err, flat>>

\* The replay of lines 51-63 that stops at the first failure, with no finally
\* clause to close the buffer and the underlying writer.
header_close_replay_unguarded(x, rows_out, failed) ==
    IF failed
    THEN [x EXCEPT !.sink = @ \o rows_out, !.result = "replay failed"]
    ELSE [x EXCEPT !.sink = @ \o rows_out, !.fobj_closed = @ + 1,
                   !.wrtr_closed = @ + 1, !.result = "closed"]

\* Lines 48-67 in minimized mode: rows_out reached the underlying writer
\* before the replay ended or failed; the finally clauses close the buffer
\* and the underlying writer either way.
header_close_replay(x, rows_out, failed) ==
    [x EXCEPT !.sink = @ \o rows_out, !.fobj_closed = @ + 1, !.wrtr_closed = @ + 1,
              !.result = IF failed THEN "replay failed" ELSE "closed"]

\* HeaderlessMixin.close (lines 18-23) and HeaderMixin.close (lines 42-67);
\* n of the replay's writes succeed, the write after them raising when the
\* replay has more.
close_writer(x, n) ==
    IF x.closed THEN [x EXCEPT !.closes = @ + 1, !.result = "already closed"]
    ELSE IF x.mode = "minimized"
    THEN header_close_replay(
             [x EXCEPT !.closes = @ + 1, !.closed = TRUE, !.wrtr = "None", !.fobj = "None"],
             SubSeq(replayed(WriterFields,
                             minimized_fields(WriterFields, x.fields_used), x.buffer),
                    1, n),
             n <= Len(x.buffer))
    ELSE [x EXCEPT !.closes = @ + 1, !.closed = TRUE, !.wrtr = "None",
                   !.wrtr_closed = @ + 1, !.result = "closed"]

close ==
    /\ pc = "writer"
    /\ w.closes < MaxCloses
    /\ \E n \in 0..(Len(w.buffer) + 1) : w' = close_writer([w EXCEPT !.op = "close"], n)
    /\ UNCHANGED <<rows, pos, cfg, pc, out, calls, blank_idx, fields, records, lines, err, flat>>

\* __exit__: self.close(), whatever the exception state of the block.
exit ==
    /\ pc = "writer"
    /\ w.closes < MaxCloses
    /\ \E n \in 0..(Len(w.buffer) + 1) : w' = close_writer([w EXCEPT !.op = "__exit__"], n)
    /\ UNCHANGED <<rows, pos, cfg, pc, out, calls, blank_idx, fields, records, lines, err, flat>>

NextWriter == write \/ write_header \/ close \/ exit

SpecWriter == InitWriter /\ [][NextWriter]_vars

(***************************************************************************)
(* Claims about list_reader                                                *)
(***************************************************************************)

\* The rows the source has handed out so far.
Consumed == SubSeq(rows, 1, pos - 1)

\* The trimming the flags ask for, field by field: leading whitespace goes
\* unless leading_ws, trailing whitespace goes unless trailing_ws.
TrimField(c, s) ==
    LET a == IF c.leading_ws THEN s ELSE str_lstrip(s)
    IN  IF c.trailing_ws THEN a ELSE str_rstrip(a)

TrimRow(c, lst) == [i \in 1..Len(lst) |-> TrimField(c, lst[i])]

\* The batch reading of the pipeline: trim every row, drop the blank rows,
\* drop the rows equal to the sentinel, hand the rest to the handler, drop None.
Pipeline(c, src) ==
    LET NotBlank(r) == ~c.ignore_blanks \/ (\E i \in 1..Len(r) : r[i] # <<>>)
        NotSentinel(r) == c.ignore = NoneRow \/ r # c.ignore
        NotNone(r) == r # NoneRow
        trimmed == [i \in 1..Len(src) |-> TrimRow(c, src[i])]
        kept == SelectSeq(SelectSeq(trimmed, NotBlank), NotSentinel)
        handled == [i \in 1..Len(kept) |-> handler_apply(c.handler, kept[i])]
    IN  [out |-> IF c.handler = "none" THEN kept ELSE SelectSeq(handled, NotNone),
         calls |-> IF c.handler = "none" THEN <<>> ELSE kept]

\* C1: whatever the rows and the configuration, the rows list_reader has
\* yielded are the consumed input rows, in order, after trim, then blank-skip,
\* then sentinel-skip, then the handler (None results dropped); the handler
\* has been invoked exactly on the trimmed rows that survived the blank and
\* sentinel filters, so never on a row dropped as blank or as the sentinel.
C1_PipelineOrder ==
    pc \in {"iter", "exhausted"} =>
        /\ out = Pipeline(cfg, Consumed).out
        /\ calls = Pipeline(cfg, Consumed).calls

\* A run in which the sentinel matched only the trimmed row, the handler
\* rejected a row, and a row was yielded.
C1_Witness ==
    /\ pc = "exhausted"
    /\ cfg.handler = "reject_a"
    /\ cfg.ignore # NoneRow
    /\ \E i \in 1..Len(rows) : rows[i] # cfg.ignore /\ TrimRow(cfg, rows[i]) = cfg.ignore
    /\ Len(calls) > Len(out)
    /\ Len(out) > 0

WhitespaceOnly(s) == \A k \in 1..Len(s) : s[k] \in Whitespace

\* C2 as stated: with ignore_blanks, whatever the whitespace flags, the rows
\* removed by the blank filter are exactly the rows whose every field is
\* empty or whitespace-only.
C2_AsStated ==
    (pc \in {"iter", "exhausted"} /\ cfg.ignore_blanks) =>
        \A i \in 1..(pos - 1) :
            i \in blank_idx <=> \A k \in 1..Len(rows[i]) : WhitespaceOnly(rows[i][k])

\* C2 amended: with ignore_blanks, the rows removed by the blank filter are
\* exactly the rows whose every field is empty after the configured trimming:
\* the rows whose every field is empty or whitespace-only when leading or
\* trailing whitespace is stripped, and the rows whose every field is the
\* empty string when both leading_ws and trailing_ws keep the whitespace.
C2_BlankRows ==
    (pc \in {"iter", "exhausted"} /\ cfg.ignore_blanks) =>
        \A i \in 1..(pos - 1) :
            i \in blank_idx <=>
                \A k \in 1..Len(rows[i]) :
                    IF cfg.leading_ws /\ cfg.trailing_ws
                    THEN rows[i][k] = <<>>
                    ELSE WhitespaceOnly(rows[i][k])

\* A run that removed the zero-field row and a whitespace-only row and kept
\* a row with a non-whitespace character.
C2_Witness ==
    /\ pc = "exhausted"
    /\ cfg.ignore_blanks
    /\ \E i \in blank_idx : rows[i] = <<>>
    /\ \E i \in blank_idx : rows[i] = << <<" ">> >>
    /\ \E i \in 1..Len(rows) : i \notin blank_idx /\ ~WhitespaceOnly(rows[i][1])

(***************************************************************************)
(* Claims about dict_reader and obj_reader                                 *)
(***************************************************************************)

Names(lst) == {lst[i] : i \in 1..Len(lst)}

\* The cleaned rows a header can come from: the source read with the call's
\* whitespace, blank-row and handler arguments and no sentinel.
HeaderRows == Pipeline(reader_cfg(cfg, NoneRow), rows).out

BothGiven == cfg.fields.given /\ cfg.field_rename.given

NoHeader == ~cfg.fields.given /\ HeaderRows = <<>>

\* A name after the renaming the call asks for.
RenamedName(x) ==
    IF \E q \in cfg.field_rename.pairs : q[1] = x
    THEN (CHOOSE q \in cfg.field_rename.pairs : q[1] = x)[2]
    ELSE x

UnrenamedFields ==
    IF cfg.fields.given
    THEN [i \in 1..Len(cfg.fields.cols) |->
            IF cfg.fields.cols[i].has_name THEN cfg.fields.cols[i].name
            ELSE cfg.fields.cols[i].str]
    ELSE HeaderRows[1]

\* The resolved field list: the supplied names, or the header, renamed.
ResolvedFields == [i \in 1..Len(UnrenamedFields) |-> RenamedName(UnrenamedFields[i])]

HasResolved == ~BothGiven /\ ~NoHeader

Duplicated(lst) == \E i, j \in 1..Len(lst) : i < j /\ lst[i] = lst[j]

\* The decimal numeral of a number below ten.
Numeral(j) == <<"0", "1", "2", "3", "4", "5", "6", "7", "8", "9">>[j + 1]

\* The key generated for the j-th extra value, j counted from 0.
RestKey(j) == cfg.rest_key \o <<Numeral(j)>>

\* The i-th cleaned row handed to the mapper has more values than fields,
\* resp. fewer.
Longer(i) == Len(lines[i]) > Len(fields)

Shorter(i) == Len(lines[i]) < Len(fields)

Collides(i) ==
    \E j \in 0..(Len(lines[i]) - Len(fields) - 1) : RestKey(j) \in Names(fields)

\* The mapper failed on its i-th row with error e, having yielded a record
\* for each row before it and none for it.
FailedOn(i, e) ==
    /\ i = Len(lines)
    /\ pc = "raised"
    /\ err = e
    /\ Len(records) = i - 1

\* C3: duplicate field names always fail: the call raises when the resolved
\* field list (supplied or read from the header, after field_rename) holds a
\* name twice; the mapper raises on a longer row whose generated keys
\* rest_key + index collide with a field name; and every yielded record has
\* one key per value, so no key was silently overwritten.
C3_DuplicatesFail ==
    /\ (pc # "start" /\ HasResolved /\ Duplicated(ResolvedFields)) =>
           pc = "call_failed" /\ err = "duplicate field names" /\ records = <<>>
    /\ \A i \in 1..Len(lines) :
           (Longer(i) /\ cfg.rest_key # NoneStr /\ Collides(i)) =>
               FailedOn(i, "rest_key generated duplicate key")
    /\ \A i \in 1..Len(records) :
           Cardinality(DOMAIN records[i].data) =
               IF Longer(i) THEN Len(lines[i]) ELSE Len(fields)

\* A run in which the mapper yielded a record and then raised on a row whose
\* generated key collided with a field name.
C3_Witness ==
    /\ pc = "raised"
    /\ err = "rest_key generated duplicate key"
    /\ Len(records) = 1
    /\ Longer(Len(lines))
    /\ Collides(Len(lines))

\* C4: for a row with n + k values against n fields, k >= 1: with a rest_key
\* and no key collision the record maps the i-th field to the i-th value and
\* the key rest_key + str(j) to value n + j for j in 0..k-1, and has no other
\* key; without a rest_key the row fails with 'too many fields' and no record
\* is yielded for it.
C4_LongerRow ==
    \A i \in 1..Len(lines) :
        Longer(i) =>
            /\ (cfg.rest_key # NoneStr /\ ~Collides(i)) =>
                   /\ i <= Len(records)
                   /\ DOMAIN records[i].data =
                          Names(fields) \cup
                          {RestKey(j) : j \in 0..(Len(lines[i]) - Len(fields) - 1)}
                   /\ \A j \in 1..Len(fields) :
                          records[i].data[fields[j]] = lines[i][j]
                   /\ \A j \in 0..(Len(lines[i]) - Len(fields) - 1) :
                          records[i].data[RestKey(j)] = lines[i][Len(fields) + j + 1]
            /\ cfg.rest_key = NoneStr => FailedOn(i, "too many fields")

\* A record built from a row with two values more than there are fields.
C4_Witness ==
    \E i \in 1..Len(records) :
        /\ Len(lines[i]) = Len(fields) + 2
        /\ RestKey(1) \in DOMAIN records[i].data

\* C5: for a row with fewer values than fields: with a rest_val (any value
\* but None, the empty string included) the record's keys are exactly the
\* fields, the leading fields holding the row's values and every remaining
\* field rest_val; without a rest_val the row fails with 'insufficient
\* fields' and no record is yielded for it.
C5_ShorterRow ==
    \A i \in 1..Len(lines) :
        Shorter(i) =>
            /\ cfg.rest_val # NoneStr =>
                   /\ i <= Len(records)
                   /\ DOMAIN records[i].data = Names(fields)
                   /\ \A j \in 1..Len(fields) :
                          records[i].data[fields[j]] =
                              IF j <= Len(lines[i]) THEN lines[i][j] ELSE cfg.rest_val
            /\ cfg.rest_val = NoneStr => FailedOn(i, "insufficient fields")

\* A record padded with the empty string as rest_val.
C5_Witness ==
    /\ cfg.rest_val = <<>>
    /\ \E i \in 1..Len(records) :
           /\ Shorter(i)
           /\ Len(lines[i]) > 0
           /\ records[i].data[fields[Len(fields)]] = <<>>

\* C6: round trip: when a record dict_reader produced from a row as long as
\* the field list is flattened with the same field list, the flattening
\* succeeds and gives the row back, value for value and in order.
C6_RoundTrip ==
    (flat.idx > 0 /\ Len(lines[flat.idx]) = Len(fields)) =>
        flat.ok /\ flat.lst = lines[flat.idx]

\* A flattened record of two different values.
C6_Witness ==
    /\ flat.idx > 0
    /\ flat.ok
    /\ Len(lines[flat.idx]) = Len(fields)
    /\ Len(flat.lst) = 2
    /\ flat.lst[1] # flat.lst[2]

ObjInvalid ==
    /\ cfg.kind = "obj"
    /\ \E i \in 1..Len(ResolvedFields) :
          ~isidentifier(ResolvedFields[i]) \/ ResolvedFields[i] = line_num_name

\* The configuration errors of C10.
BadConfig ==
    \/ BothGiven
    \/ NoHeader
    \/ /\ HasResolved
       /\ \/ ResolvedFields = <<>>
          \/ \E i \in 1..Len(ResolvedFields) : ResolvedFields[i] = <<>>
          \/ Duplicated(ResolvedFields)
          \/ ObjInvalid

Observable(x) == [x EXCEPT !.closes = 0, !.op = "", !.result = ""]

\* C7: close is idempotent: whatever writes, closes and __exit__ calls were
\* made on an opened writer, the underlying writer's close() has been invoked
\* exactly once as soon as close or __exit__ was called once, also when the
\* replay of the buffer failed; in minimized mode the same holds of the
\* temporary buffer; and a close or __exit__ after the first changes nothing.
C7_CloseOnce ==
    /\ [](/\ w.wrtr_closed = (IF w.closes > 0 THEN 1 ELSE 0)
          /\ w.fobj_closed = (IF w.closes > 0 /\ w.mode = "minimized" THEN 1 ELSE 0)
          /\ w.closed <=> w.closes > 0)
    /\ [][(w.closes > 0 /\ w'.closes > w.closes) => Observable(w') = Observable(w)]_vars

\* A minimized writer closed twice whose replay failed before every buffered
\* row had reached the underlying writer.
C7_Witness ==
    /\ w.mode = "minimized"
    /\ w.closes = 2
    /\ w.wrtr_closed = 1
    /\ w.fobj_closed = 1
    /\ Len(w.buffer) > 0
    /\ Len(w.sink) <= Len(w.buffer)

\* A value is blank when it is None or holds nothing but whitespace.
BlankValue(v) == v = NoneStr \/ WhitespaceOnly(v)

\* The fields, in field-list order, that hold a non-blank value in some
\* buffered row, or every field when there is none.
UsedHeader ==
    LET Used(j) == \E i \in 1..Len(w.buffer) : ~BlankValue(w.buffer[i][j])
        some == \E j \in 1..Len(WriterFields) : Used(j)
    IN  SelectSeq([j \in 1..Len(WriterFields) |-> j], LAMBDA j : Used(j) \/ ~some)

\* The i-th buffered row restricted to the header's fields.
Restricted(i) == [k \in 1..Len(UsedHeader) |-> w.buffer[i][UsedHeader[k]]]

\* The same with each value as the text buffer gives it back: None as "".
RestrictedText(i) ==
    [k \in 1..Len(UsedHeader) |->
        IF Restricted(i)[k] = NoneStr THEN <<>> ELSE Restricted(i)[k]]

HeaderNames == [k \in 1..Len(UsedHeader) |-> WriterFields[UsedHeader[k]]]

\* The close that just ended was the first one of a minimized writer.
JustClosed ==
    /\ w.mode = "minimized"
    /\ w.closes = 1
    /\ w.op \in {"close", "__exit__"}

\* C8 as stated: in minimized mode nothing reaches the underlying writer
\* before close, and the close hands it the header of the used fields (every
\* field when none was used) and then every buffered row, in order,
\* restricted to the header's fields.
C8_AsStated ==
    /\ (w.mode = "minimized" /\ ~w.closed) => w.sink = <<>>
    /\ (JustClosed /\ w.result = "closed") =>
           w.sink = <<HeaderNames>> \o [i \in 1..Len(w.buffer) |-> Restricted(i)]

\* C8 amended: as stated, except that the rows are replayed as read back from
\* the text buffer: a None value of a buffered row reaches the underlying
\* writer as the empty string.  When the replay fails the underlying writer
\* has received a prefix of that sequence.
C8_MinimizedReplay ==
    /\ (w.mode = "minimized" /\ ~w.closed) => w.sink = <<>>
    /\ JustClosed =>
           /\ w.sink = SubSeq(<<HeaderNames>> \o [i \in 1..Len(w.buffer) |-> RestrictedText(i)],
                              1, Len(w.sink))
           /\ w.result = "closed" => Len(w.sink) = Len(w.buffer) + 1

\* A close that wrote a header without the field that was blank in both
\* buffered rows.
C8_Witness ==
    /\ JustClosed
    /\ w.result = "closed"
    /\ Len(w.buffer) = 2
    /\ w.sink[1] = << <<"a">> >>
    /\ Len(w.sink) = 3

\* C9: on an open header-mode writer with a handler, a write whose handler
\* returns None writes and buffers nothing and leaves the used fields alone;
\* a write whose handler returns a row of another length fails and also
\* changes none of them; any other write appends exactly the handler's row to
\* the underlying writer (non-minimized) or to the buffer (minimized).
C9_Handler ==
    [][(/\ w'.op = "write"
        /\ w'.writes = w.writes + 1
        /\ w'.result # "flatten failed"
        /\ w.mode \in {"header", "minimized"}
        /\ w.handler # "none"
        /\ ~w.closed)
       => IF writer_handler_apply(w.handler, w'.lst) = NoneRow
          THEN /\ w'.sink = w.sink
               /\ w'.buffer = w.buffer
               /\ w'.fields_used = w.fields_used
          ELSE IF Len(writer_handler_apply(w.handler, w'.lst)) # Len(w'.lst)
          THEN /\ w'.result = "AttributeError"
               /\ w'.sink = w.sink
               /\ w'.buffer = w.buffer
               /\ w'.fields_used = w.fields_used
          ELSE IF w.mode = "header"
          THEN /\ w'.sink = Append(w.sink, writer_handler_apply(w.handler, w'.lst))
               /\ w'.buffer = w.buffer
          ELSE /\ w'.buffer = Append(w.buffer, writer_handler_apply(w.handler, w'.lst))
               /\ w'.sink = w.sink]_vars

\* A minimized writer that has buffered a row its handler changed.
C9_Witness ==
    /\ w.mode = "minimized"
    /\ w.handler = "edit"
    /\ w.op = "write"
    /\ w.result = "buffered"
    /\ w.buffer[Len(w.buffer)] # w.lst
    /\ w.buffer[Len(w.buffer)] = writer_handler_apply("edit", w.lst)

====
